---- MODULE Spec2Model ----
(***************************************************************************)
(* Model of pkg/disk/disk.go: the user data disk reconciler                *)
(* (userDataDiskManager.EnsureUserDataDisk and its helpers).               *)
(*                                                                         *)
(* The host filesystem is reduced to the paths the code touches:           *)
(*   pers     UserDataDiskPath(homeDir), the persistent disk file          *)
(*   sib[e]   the sibling path "<UserDataDiskPath>.<e>"                    *)
(*   slot     <lima-home>/_disks/finch/datadisk                            *)
(*   other    some path outside the reconciler's layout (a symlink target) *)
(*   disksDir path.Dir(UserDataDiskPath), present or not                   *)
(*   lock     <lima-home>/_disks/finch/in_use_by, present or not           *)
(* The registry (limactl) and qemu-img are external tools: each            *)
(* invocation is one step whose failure is chosen nondeterministically in  *)
(* a call that runs with faults (faulty[self]).                            *)
(***************************************************************************)
EXTENDS Naturals, Sequences, FiniteSets

\* ---------------------------------------------------------------- bounds
\* EnsureUserDataDisk calls made by one manager in one behaviour.
MaxCalls == 3

\* EnsureUserDataDisk calls made in all by two managers that run unserialised.
MaxRuns == 3

\* ------------------------------------------------------------- constants
diskName == "finch"
\* The sibling suffix and the source format convertToRaw hands to qemu-img.
QcowExt == "qcow2"
\* Variant: the -f and -O arguments swapped.
ConvertSrcFormat_swapped == "raw"
ConvertSrcFormat == "qcow2"
ConvertDstFormat == "raw"
\* The format createLimaDisk asks the registry for.
CreateFormat == "raw"
\* Variant: the raw-format requirement is tied to the other backend.
RawVMType_qemu == "qemu"
\* The VM type whose disks must be raw.
RawVMType == "vz"

Procs == {1, 2}
VMTypes == {"vz", "qemu"}
Formats == {"raw", "qcow2", "vmdk"}
\* Sibling suffixes: the conventional extension of every non-raw format.
Exts == Formats \ {"raw"}
LsOutcomes == {"ok", "fail", "undecodable", "mismatch"}

\* ------------------------------------------------------ directory entries
NoData == <<"-", 0>>
UserData == <<"user", 0>>
OtherData == <<"other", 0>>
FreshData(n) == <<"fresh", n>>

None == [kind |-> "none", fmt |-> "-", data |-> NoData, target |-> "-"]
File(f, d) == [kind |-> "file", fmt |-> f, data |-> d, target |-> "-"]
Link(t) == [kind |-> "link", fmt |-> "-", data |-> NoData, target |-> t]

VARIABLES
    regDisk,    \* the registry holds a disk named diskName
    pers,       \* entry at the persistent disk path
    sib,        \* entries at the sibling paths, by suffix
    slot,       \* entry at the registry slot
    other,      \* entry at the path a foreign symlink points to
    disksDir,   \* the persistent file's parent directory exists
    lock,       \* the lock marker exists
    vmType,     \* *m.config.VMType
    nextId,     \* id of the next file the registry creates
    firstData,  \* history: the data the persistent file first held
    pc,         \* per manager: position in EnsureUserDataDisk
    ret,        \* per manager: where attachPersistentDiskToLimaDisk returns to
    faulty,     \* per manager: tools and filesystem may fail in this call
    result,     \* per manager: "none" (running), "ok" (nil), "err"
    failedAt,   \* per manager: the step that failed in this call
    ops,        \* per manager: <<operation, argument>> invoked in this call
    lsOut,      \* per manager: what `disk ls` answered in this call
    info,       \* per manager: info.Format read in this call
    attExists,  \* per manager: the persistent path named a file when link repair started
    attPre,     \* per manager: the persistent and slot entries when link repair started
    lockSeen,   \* per manager: limaDiskIsLocked() in this call
    calls,      \* per manager: calls started
    prev,       \* per manager: result and failed step of the previous call
    pre,        \* per manager: the shared state when this call started
    overlapped  \* history: some call started while another manager's call was running

shared == <<regDisk, pers, sib, slot, other, disksDir, lock, vmType, nextId, firstData>>
local == <<pc, ret, faulty, result, failedAt, ops, lsOut, info, attExists, attPre,
           lockSeen, calls, prev, pre, overlapped>>
vars == <<shared, local>>

\* ----------------------------------------------------- filesystem helpers
\* The entry a path names: "pers", "slot", "other" or a sibling suffix.
EntryAt(p) ==
    IF p = "pers" THEN pers
    ELSE IF p = "slot" THEN slot
    ELSE IF p = "other" THEN other
    ELSE sib[p]

\* os.Stat semantics: symlinks are followed.  The regular file reached from
\* entry e, None when the chain dangles, and "loop" when it never ends
\* (a symlink at the persistent path that names the persistent path).
RECURSIVE Resolve(_, _)
Resolve(e, fuel) ==
    IF e.kind # "link" THEN e
    ELSE IF fuel = 0 THEN [None EXCEPT !.kind = "loop"]
    ELSE Resolve(EntryAt(e.target), fuel - 1)

Follow(e) == Resolve(e, 3)

\* fs.Stat(path): "ok", "notexist" (fs.ErrNotExist) or "error" (ELOOP).
Stat(e) ==
    LET r == Follow(e)
    IN IF r.kind = "file" THEN "ok"
       ELSE IF r.kind = "none" THEN "notexist"
       ELSE "error"

\* fs.ReadlinkIfPossible(path): the link target, "" when path is no symlink.
ReadlinkIfPossible(e) == IF e.kind = "link" THEN e.target ELSE ""

Snapshot == [regDisk |-> regDisk, pers |-> pers, sib |-> sib, slot |-> slot,
             lock |-> lock, disksDir |-> disksDir]

\* ------------------------------------------------------------------ Init
InitEntries ==
    /\ pers \in {None} \cup {File(f, UserData) : f \in Formats}
    /\ slot \in {None, File(CreateFormat, FreshData(0)), Link("pers"), Link("other")}
    /\ other \in {None} \cup {File(f, OtherData) : f \in {"raw", "qcow2"}}
    /\ sib = [e \in Exts |-> None]
    /\ disksDir \in BOOLEAN
    /\ (pers.kind # "none" => disksDir)

Init ==
    /\ regDisk \in BOOLEAN
    /\ InitEntries
    /\ lock \in BOOLEAN
    /\ vmType \in VMTypes
    /\ nextId = 1
    /\ firstData = pers.data
    /\ pc = [p \in Procs |-> "idle"]
    /\ ret = [p \in Procs |-> "-"]
    /\ faulty = [p \in Procs |-> FALSE]
    /\ result = [p \in Procs |-> "none"]
    /\ failedAt = [p \in Procs |-> "-"]
    /\ ops = [p \in Procs |-> <<>>]
    /\ lsOut = [p \in Procs |-> "-"]
    /\ info = [p \in Procs |-> "-"]
    /\ attExists = [p \in Procs |-> FALSE]
    /\ attPre = [p \in Procs |-> [pers |-> None, slot |-> None]]
    /\ lockSeen = [p \in Procs |-> FALSE]
    /\ calls = [p \in Procs |-> 0]
    /\ prev = [p \in Procs |-> [result |-> "none", failedAt |-> "-", faulty |-> FALSE]]
    /\ pre = [p \in Procs |-> Snapshot]
    /\ overlapped = FALSE

\* --------------------------------------------------------- step plumbing
Goto(self, p) == pc' = [pc EXCEPT ![self] = p]
Log(self, op, arg) == ops' = [ops EXCEPT ![self] = Append(@, <<op, arg>>)]

\* return nil
ReturnOk(self) ==
    /\ pc' = [pc EXCEPT ![self] = "done"]
    /\ result' = [result EXCEPT ![self] = "ok"]
    /\ UNCHANGED failedAt

\* Variant: a failing step's error is dropped and nil is returned.
ReturnErr_nil(self, step) ==
    /\ pc' = [pc EXCEPT ![self] = "done"]
    /\ result' = [result EXCEPT ![self] = "ok"]
    /\ failedAt' = [failedAt EXCEPT ![self] = step]

\* return err: the call ends at its first failing step, nothing is undone.
ReturnErr(self, step) ==
    /\ pc' = [pc EXCEPT ![self] = "done"]
    /\ result' = [result EXCEPT ![self] = "err"]
    /\ failedAt' = [failedAt EXCEPT ![self] = step]

Continue(self, p) ==
    /\ Goto(self, p)
    /\ UNCHANGED <<result, failedAt>>

\* Enter attachPersistentDiskToLimaDisk, to come back at `back`.
CallAttach(self, back) ==
    /\ Goto(self, "att_statpers")
    /\ ret' = [ret EXCEPT ![self] = back]
    /\ UNCHANGED <<result, failedAt>>

\* An external failure (tool exit code, filesystem error) may be injected.
MayFail(self) == faulty[self]

\* Fields of a call that only Call writes.
callFrame == <<faulty, calls, prev, pre, overlapped>>

\* The persistent file's first content, once it has one.
FirstData(newPers) ==
    IF firstData = NoData /\ newPers.kind = "file" THEN newPers.data ELSE firstData

\* --------------------------------------------------- EnsureUserDataDisk
\* The caller invokes EnsureUserDataDisk; the previous call, if any, is over.
Call(self) ==
    /\ pc[self] \in {"idle", "done"}
    /\ calls[self] < MaxCalls
    /\ \E f \in BOOLEAN : faulty' = [faulty EXCEPT ![self] = f]
    /\ calls' = [calls EXCEPT ![self] = @ + 1]
    /\ prev' = [prev EXCEPT ![self] = [result |-> result[self], failedAt |-> failedAt[self],
                                       faulty |-> faulty[self]]]
    /\ pre' = [pre EXCEPT ![self] = Snapshot]
    /\ overlapped' = (overlapped \/ \E p \in Procs \ {self} : pc[p] \notin {"idle", "done"})
    /\ pc' = [pc EXCEPT ![self] = "ls"]
    /\ ret' = [ret EXCEPT ![self] = "-"]
    /\ result' = [result EXCEPT ![self] = "none"]
    /\ failedAt' = [failedAt EXCEPT ![self] = "-"]
    /\ ops' = [ops EXCEPT ![self] = <<>>]
    /\ lsOut' = [lsOut EXCEPT ![self] = "-"]
    /\ info' = [info EXCEPT ![self] = "-"]
    /\ attExists' = [attExists EXCEPT ![self] = FALSE]
    /\ attPre' = [attPre EXCEPT ![self] = [pers |-> None, slot |-> None]]
    /\ lockSeen' = [lockSeen EXCEPT ![self] = FALSE]
    /\ UNCHANGED shared

\* Variant: the json.Unmarshal error is not checked.
DiskListed_noDecodeCheck(out) == out \in {"ok", "undecodable"} /\ regDisk

\* limaDiskExists's answer for what `disk ls finch --json` produced: a failed
\* command, undecodable output and a record of another name all mean "no".
DiskListed(out) == out = "ok" /\ regDisk

\* if m.limaDiskExists() { ... if *m.config.VMType == "vz" ... } else { create }
\* Outcome "ok" is the registry answering for what it holds (a record named
\* diskName when it holds the disk, an error when it does not); the other
\* outcomes are failures of the query itself.
limaDiskExists(self) ==
    /\ pc[self] = "ls"
    /\ \E out \in LsOutcomes :
        /\ out = "ok" \/ MayFail(self)
        /\ lsOut' = [lsOut EXCEPT ![self] = out]
        /\ IF DiskListed(out)
           THEN IF vmType = RawVMType
                THEN Continue(self, "inspect")
                ELSE Continue(self, "readlink")
           ELSE Continue(self, "create")
    /\ Log(self, "ls", "")
    /\ UNCHANGED <<shared, callFrame, ret, info, attExists, attPre, lockSeen>>

\* Variant: the format test never asks for conversion.
NeedsConvert_never(fmt) == FALSE

\* The branch on info.Format: conversion is needed unless the format is raw.
NeedsConvert(fmt) == fmt # "raw"

\* Variant: the error of getDiskInfo is not checked; the call goes on to link
\* verification.
getDiskInfo_errUnchecked(self) ==
    /\ pc[self] = "inspect"
    /\ Log(self, "inspect", "")
    /\ \/ /\ Stat(pers) # "ok" \/ MayFail(self)
          /\ Continue(self, "readlink")
          /\ UNCHANGED info
       \/ /\ Stat(pers) = "ok"
          /\ info' = [info EXCEPT ![self] = Follow(pers).fmt]
          /\ IF NeedsConvert(Follow(pers).fmt)
             THEN Continue(self, "cvt_rename")
             ELSE Continue(self, "readlink")
    /\ UNCHANGED <<shared, callFrame, ret, lsOut, attExists, attPre, lockSeen>>

\* info, err := m.getDiskInfo(diskPath): qemu-img info follows symlinks and
\* fails when the path names no file.
getDiskInfo(self) ==
    /\ pc[self] = "inspect"
    /\ Log(self, "inspect", "")
    /\ \/ /\ Stat(pers) # "ok" \/ MayFail(self)
          /\ ReturnErr(self, "inspect")
          /\ UNCHANGED info
       \/ /\ Stat(pers) = "ok"
          /\ info' = [info EXCEPT ![self] = Follow(pers).fmt]
          /\ IF NeedsConvert(Follow(pers).fmt)
             THEN Continue(self, "cvt_rename")
             ELSE Continue(self, "readlink")
    /\ UNCHANGED <<shared, callFrame, ret, lsOut, attExists, attPre, lockSeen>>

\* convertToRaw, first half: m.fs.Rename(diskPath, diskPath + ".qcow2").
\* os.Rename moves the entry itself (a symlink is not followed) and replaces
\* whatever the destination held.
convertToRaw_rename(self) ==
    /\ pc[self] = "cvt_rename"
    /\ Log(self, "rename", QcowExt)
    /\ \/ /\ pers.kind = "none" \/ MayFail(self)
          /\ ReturnErr(self, "rename")
          /\ UNCHANGED <<pers, sib>>
       \/ /\ pers.kind # "none"
          /\ sib' = [sib EXCEPT ![QcowExt] = pers]
          /\ pers' = None
          /\ Continue(self, "cvt_convert")
    /\ UNCHANGED <<regDisk, slot, other, disksDir, lock, vmType, nextId, firstData>>
    /\ UNCHANGED <<callFrame, ret, lsOut, info, attExists, attPre, lockSeen>>

\* convertToRaw, second half: qemu-img convert -f qcow2 -O raw qcowPath diskPath.
\* The tool reads the source through symlinks, rejects a source that is not
\* in the declared format, and writes a raw file with the same content at
\* diskPath.  On return EnsureUserDataDisk calls link repair (line 96).
convertToRaw_convert(self) ==
    /\ pc[self] = "cvt_convert"
    /\ Log(self, "convert", ConvertSrcFormat)
    /\ LET src == Follow(sib[QcowExt])
           readable == src.kind = "file" /\ src.fmt = ConvertSrcFormat
       IN \/ /\ ~readable \/ MayFail(self)
             /\ ReturnErr(self, "convert")
             /\ UNCHANGED <<pers, firstData, ret>>
          \/ /\ readable
             /\ pers' = File(ConvertDstFormat, src.data)
             /\ firstData' = FirstData(File(ConvertDstFormat, src.data))
             /\ CallAttach(self, "readlink")
    /\ UNCHANGED <<regDisk, sib, slot, other, disksDir, lock, vmType, nextId>>
    /\ UNCHANGED <<callFrame, lsOut, info, attExists, attPre, lockSeen>>

\* The test of line 110: repair unless the slot links to the persistent path.
\* Variant: an empty read (regular file or missing slot) passes verification.
LinkBroken_onlyOtherLinks(loc) == loc \notin {"pers", ""}

\* Variant: link verification repairs whatever it reads.
LinkBroken_always(loc) == TRUE

LinkBroken(loc) == loc # "pers"

\* loc, err := m.fs.ReadlinkIfPossible(limaPath); if loc != diskPath { attach }
readLink(self) ==
    /\ pc[self] = "readlink"
    /\ Log(self, "readlink", "")
    /\ \/ /\ MayFail(self)
          /\ ReturnErr(self, "readlink")
          /\ UNCHANGED ret
       \/ IF LinkBroken(ReadlinkIfPossible(slot))
          THEN CallAttach(self, "lockcheck")
          ELSE Continue(self, "lockcheck") /\ UNCHANGED ret
    /\ UNCHANGED <<shared, callFrame, lsOut, info, attExists, attPre, lockSeen>>

\* limactl disk create finch --size 50G --format raw: on success the registry
\* holds the disk and the slot holds the registry's own fresh raw file
\* (lines 115-122 repair the link unconditionally for that reason).
createLimaDisk(self) ==
    /\ pc[self] = "create"
    /\ Log(self, "create", CreateFormat)
    /\ \/ /\ MayFail(self)
          /\ ReturnErr(self, "create")
          /\ UNCHANGED <<regDisk, slot, nextId, ret>>
       \/ /\ regDisk' = TRUE
          /\ slot' = File(CreateFormat, FreshData(nextId))
          /\ nextId' = nextId + 1
          /\ CallAttach(self, "lockcheck")
    /\ UNCHANGED <<pers, sib, other, disksDir, lock, vmType, firstData>>
    /\ UNCHANGED <<callFrame, lsOut, info, attExists, attPre, lockSeen>>

\* Variant: the persistent file is always taken to be missing.
persistentDiskExists_never == FALSE

\* Variant: Lstat instead of Stat, so that a symlink that leads nowhere counts.
persistentDiskExists_lstat == pers.kind # "none"

\* m.persistentDiskExists(): Stat succeeded.  Its answer is the filesystem's:
\* absent, dangling and looping entries all read as "does not exist".
persistentDiskExists == Stat(pers) = "ok"

\* attachPersistentDiskToLimaDisk, line 203: if !m.persistentDiskExists()
attachPersistentDiskToLimaDisk_statPers(self) ==
    /\ pc[self] = "att_statpers"
    /\ Log(self, "attach", "")
    /\ attExists' = [attExists EXCEPT ![self] = (Follow(pers).kind = "file")]
    /\ attPre' = [attPre EXCEPT ![self] = [pers |-> pers, slot |-> slot]]
    /\ IF persistentDiskExists
       THEN Continue(self, "att_statslot")
       ELSE Continue(self, "att_statdir")
    /\ UNCHANGED <<shared, callFrame, ret, lsOut, info, lockSeen>>

\* lines 204-206: _, err := m.fs.Stat(disksDir); errors.Is(err, fs.ErrNotExist)
attachPersistentDiskToLimaDisk_statDir(self) ==
    /\ pc[self] = "att_statdir"
    /\ IF disksDir
       THEN Continue(self, "att_move")
       ELSE Continue(self, "att_mkdir")
    /\ UNCHANGED <<shared, callFrame, ret, ops, lsOut, info, attExists, attPre, lockSeen>>

\* line 207: m.fs.MkdirAll(disksDir, 0o755)
attachPersistentDiskToLimaDisk_mkdir(self) ==
    /\ pc[self] = "att_mkdir"
    /\ Log(self, "mkdir", "")
    /\ \/ /\ MayFail(self)
          /\ ReturnErr(self, "mkdir")
          /\ UNCHANGED disksDir
       \/ /\ disksDir' = TRUE
          /\ Continue(self, "att_move")
    /\ UNCHANGED <<regDisk, pers, sib, slot, other, lock, vmType, nextId, firstData>>
    /\ UNCHANGED <<callFrame, ret, lsOut, info, attExists, attPre, lockSeen>>

\* line 211: m.fs.Rename(limaPath, UserDataDiskPath): the slot's entry, file
\* or symlink, becomes the entry at the persistent path.
attachPersistentDiskToLimaDisk_move(self) ==
    /\ pc[self] = "att_move"
    /\ Log(self, "move", "")
    /\ \/ /\ slot.kind = "none" \/ ~disksDir \/ MayFail(self)
          /\ ReturnErr(self, "move")
          /\ UNCHANGED <<pers, slot, firstData>>
       \/ /\ slot.kind # "none" /\ disksDir
          /\ pers' = slot
          /\ slot' = None
          /\ firstData' = FirstData(slot)
          /\ Continue(self, "att_statslot")
    /\ UNCHANGED <<regDisk, sib, other, disksDir, lock, vmType, nextId>>
    /\ UNCHANGED <<callFrame, ret, lsOut, info, attExists, attPre, lockSeen>>

\* lines 218-223: _, err := m.fs.Stat(limaPath): remove only what Stat finds.
attachPersistentDiskToLimaDisk_statSlot(self) ==
    /\ pc[self] = "att_statslot"
    /\ \/ /\ Stat(slot) = "error" \/ MayFail(self)
          /\ ReturnErr(self, "stat")
       \/ /\ Stat(slot) = "ok"
          /\ Continue(self, "att_remove")
       \/ /\ Stat(slot) = "notexist"
          /\ Continue(self, "att_symlink")
    /\ UNCHANGED <<shared, callFrame, ret, ops, lsOut, info, attExists, attPre, lockSeen>>

\* line 224: m.fs.Remove(limaPath) removes the slot's own entry.
attachPersistentDiskToLimaDisk_remove(self) ==
    /\ pc[self] = "att_remove"
    /\ Log(self, "remove", "")
    /\ \/ /\ slot.kind = "none" \/ MayFail(self)
          /\ ReturnErr(self, "remove")
          /\ UNCHANGED slot
       \/ /\ slot.kind # "none"
          /\ slot' = None
          /\ Continue(self, "att_symlink")
    /\ UNCHANGED <<regDisk, pers, sib, other, disksDir, lock, vmType, nextId, firstData>>
    /\ UNCHANGED <<callFrame, ret, lsOut, info, attExists, attPre, lockSeen>>

\* What SymlinkIfPossible(UserDataDiskPath, limaPath) leaves at the slot: a
\* link to the persistent path, or, as line 216 says, the entry already there.
\* Variant: the symlink is never created.
SymlinkIfPossible_noop(cur) == cur

SymlinkIfPossible(cur) == IF cur.kind = "none" THEN Link("pers") ELSE cur

\* line 230: the last step of link repair; control returns to the caller.
attachPersistentDiskToLimaDisk_symlink(self) ==
    /\ pc[self] = "att_symlink"
    /\ Log(self, "symlink", "")
    /\ \/ /\ MayFail(self)
          /\ ReturnErr(self, "symlink")
          /\ UNCHANGED slot
       \/ /\ slot' = SymlinkIfPossible(slot)
          /\ Continue(self, ret[self])
    /\ UNCHANGED <<regDisk, pers, sib, other, disksDir, lock, vmType, nextId, firstData>>
    /\ UNCHANGED <<callFrame, ret, lsOut, info, attExists, attPre, lockSeen>>

\* Variant: the lock is looked at in the existing-disk branch only.
LockMarkerPresent_existingBranch(self) ==
    lock /\ \A i \in DOMAIN ops[self] : ops[self][i][1] # "create"

\* m.limaDiskIsLocked(): Stat of the lock marker succeeded.
LockMarkerPresent(self) == lock

\* lines 124-131: if m.limaDiskIsLocked() { unlock }; return nil
limaDiskIsLocked(self) ==
    /\ pc[self] = "lockcheck"
    /\ lockSeen' = [lockSeen EXCEPT ![self] = lock]
    /\ IF LockMarkerPresent(self)
       THEN Continue(self, "unlock")
       ELSE ReturnOk(self)
    /\ UNCHANGED <<shared, callFrame, ret, ops, lsOut, info, attExists, attPre>>

\* limactl disk unlock finch: on success the registry removes the marker.
unlockLimaDisk(self) ==
    /\ pc[self] = "unlock"
    /\ Log(self, "unlock", "")
    /\ \/ /\ MayFail(self)
          /\ ReturnErr(self, "unlock")
          /\ UNCHANGED lock
       \/ /\ lock' = FALSE
          /\ ReturnOk(self)
    /\ UNCHANGED <<regDisk, pers, sib, slot, other, disksDir, vmType, nextId, firstData>>
    /\ UNCHANGED <<callFrame, ret, lsOut, info, attExists, attPre, lockSeen>>

\* ----------------------------------------------------------------- Next
EnsureUserDataDisk(self) ==
    \/ Call(self)
    \/ limaDiskExists(self)
    \/ getDiskInfo(self)
    \/ convertToRaw_rename(self)
    \/ convertToRaw_convert(self)
    \/ readLink(self)
    \/ createLimaDisk(self)
    \/ attachPersistentDiskToLimaDisk_statPers(self)
    \/ attachPersistentDiskToLimaDisk_statDir(self)
    \/ attachPersistentDiskToLimaDisk_mkdir(self)
    \/ attachPersistentDiskToLimaDisk_move(self)
    \/ attachPersistentDiskToLimaDisk_statSlot(self)
    \/ attachPersistentDiskToLimaDisk_remove(self)
    \/ attachPersistentDiskToLimaDisk_symlink(self)
    \/ limaDiskIsLocked(self)
    \/ unlockLimaDisk(self)

\* One manager: the reconciler is the sole writer while it runs.
Next == EnsureUserDataDisk(1)

Spec == Init /\ [][Next]_vars

\* Two managers: nothing in EnsureUserDataDisk takes a lock, so the steps of
\* two calls interleave freely. Both start with the slot a regular file and
\* the persistent file absent or still qcow2; every tool and filesystem
\* step works, so what goes wrong is the interleaving's doing.
InitConcurrent ==
    /\ Init
    /\ slot = File(CreateFormat, FreshData(0))
    /\ pers \in {None, File("qcow2", UserData)}
    /\ disksDir = (pers # None)
    /\ other = None

RunsStarted == calls[1] + calls[2]
RunsBounded(self) == pc[self] \in {"idle", "done"} => RunsStarted < MaxRuns

NextConcurrent ==
    \E self \in Procs : RunsBounded(self) /\ EnsureUserDataDisk(self) /\ ~faulty'[self]

SpecConcurrent == InitConcurrent /\ [][NextConcurrent]_vars

\* ====================================================================
\* Properties of one manager (manager 1 under Spec).
\* ====================================================================
OpsOf(p) == {ops[p][i][1] : i \in DOMAIN ops[p]}
Count(p, op) == Cardinality({i \in DOMAIN ops[p] : ops[p][i][1] = op})
LastOp(p) == IF ops[p] = <<>> THEN "-" ELSE ops[p][Len(ops[p])][1]

\* Operations that change the registry or the filesystem.
MutatingOps == {"create", "unlock", "convert", "rename", "mkdir", "move", "remove", "symlink"}

Finished(p) == pc[p] = "done"
Succeeded(p) == pc[p] = "done" /\ result[p] = "ok"

SlotLinked == slot = Link("pers")
RawIfRequired ==
    vmType = RawVMType => (Follow(pers).kind = "file" /\ Follow(pers).fmt = "raw")
Converged == SlotLinked /\ RawIfRequired /\ ~lock

\* --------------------------------------------------------------------
\* C1: whenever EnsureUserDataDisk returns success, the slot is a symlink
\* to the persistent path, the persistent file is raw if the backend
\* requires raw, and the lock marker is absent.  Stated here for the
\* starting state the claim singles out: no registry disk, and a
\* persistent file that exists and is not raw.
C1_ConvergedOnSuccess ==
    (/\ Succeeded(1)
     /\ ~pre[1].regDisk
     /\ pre[1].pers.kind = "file"
     /\ pre[1].pers.fmt # "raw")
    => Converged

\* --------------------------------------------------------------------
\* C2: after a call that returned success, an immediate second call in
\* which every tool works invokes no operation that changes the registry
\* or the filesystem, and returns no error.  Stated for starting states
\* whose foreign symlink target exists.
C2_SecondCallIdle ==
    (/\ pc[1] # "idle"
     /\ prev[1].result = "ok"
     /\ ~faulty[1]
     /\ other.kind = "file")
    => (result[1] # "err" /\ OpsOf(1) \cap MutatingOps = {})

\* --------------------------------------------------------------------
\* C3: a call that was stopped by a failing step, followed by a call in
\* which every tool and filesystem operation works, ends with success in
\* the converged state.  Stated for the interruption the claim names: on
\* a raw-requiring backend, the qcow2 persistent file was renamed to its
\* sibling and the convert did not complete.
C3_ConvergesAfterInterruption ==
    (/\ Finished(1)
     /\ ~faulty[1]
     /\ prev[1].faulty
     /\ prev[1].failedAt = "convert"
     /\ pre[1].sib[QcowExt] = File("qcow2", UserData)
     /\ vmType = RawVMType)
    => (result[1] = "ok" /\ Converged)

\* --------------------------------------------------------------------
\* Link repair, as seen in the log of the current call.
InAttach(p) ==
    pc[p] \in {"att_statpers", "att_statdir", "att_mkdir", "att_move",
               "att_statslot", "att_remove", "att_symlink"}
\* attachPersistentDiskToLimaDisk has just returned nil.
AttachReturned(p) == pc[p] \in {"readlink", "lockcheck"} /\ LastOp(p) = "symlink"
LastAttach(p) ==
    LET at == {i \in DOMAIN ops[p] : ops[p][i][1] = "attach"}
    IN IF at = {} THEN 0 ELSE CHOOSE i \in at : \A j \in at : j <= i
\* Operations invoked by the latest link repair of the current call.
AttachOps(p) ==
    IF LastAttach(p) = 0 THEN {}
    ELSE {ops[p][i][1] : i \in {j \in DOMAIN ops[p] : j > LastAttach(p)}}

\* --------------------------------------------------------------------
\* C4: the reconciler never removes the persistent file and never renames
\* another file over it (the only step that takes it away from its path is
\* conversion's rename to the sibling), and once the persistent file has
\* existed its data is at the persistent path or at a sibling path.
C4_DataKept ==
    firstData # NoData =>
        \/ pers.kind = "file" /\ pers.data = firstData
        \/ \E e \in Exts : sib[e].kind = "file" /\ sib[e].data = firstData

C4_NeverClobbered ==
    [][pers.kind = "file" =>
          \/ pers'.kind = "file" /\ pers'.data = pers.data
          \/ pers' = None /\ sib'[QcowExt] = pers]_vars

\* C4: both halves, the state invariant and the step property.
C4_UserDataKept == []C4_DataKept /\ C4_NeverClobbered

\* Reached: after an interrupted conversion and a re-creation, the user's
\* data survives at the sibling while a fresh file sits at the persistent path.
C4_Witness ==
    /\ firstData = UserData
    /\ pers.kind = "file" /\ pers.data # UserData
    /\ sib[QcowExt].kind = "file" /\ sib[QcowExt].data = UserData
    /\ calls[1] >= 2

\* --------------------------------------------------------------------
\* C5: whenever link repair returns success, reading the slot yields the
\* persistent path and the persistent path holds a regular file, not a
\* symlink.  Stated for the case the claim includes: the persistent file
\* was absent and the slot held a symlink when repair started.
C5_NoSymlinkAtPersistentPath ==
    (/\ AttachReturned(1)
     /\ ~attExists[1]
     /\ attPre[1].slot.kind = "link")
    => (ReadlinkIfPossible(slot) = "pers" /\ pers.kind = "file")

\* --------------------------------------------------------------------
\* C6: link repair invokes the slot-to-persistent move if and only if the
\* persistent file was absent when it started; when the persistent file
\* existed and the slot held a regular file, that file is removed, not
\* moved, and the persistent file is left as it was.
C6_MoveIffAbsent ==
    /\ "move" \in AttachOps(1) => ~attExists[1]
    /\ (AttachReturned(1) /\ ~attExists[1]) => "move" \in AttachOps(1)
    /\ (AttachReturned(1) /\ attExists[1] /\ attPre[1].slot.kind = "file")
       => /\ "remove" \in AttachOps(1)
          /\ "move" \notin AttachOps(1)
          /\ pers = attPre[1].pers

\* Reached: repair returned with the persistent file kept and the
\* registry's fresh file removed from the slot.
C6_Witness ==
    /\ AttachReturned(1)
    /\ attExists[1]
    /\ attPre[1].slot = File(CreateFormat, FreshData(1))
    /\ attPre[1].pers = File("raw", UserData)
    /\ "remove" \in AttachOps(1)
    /\ pers = File("raw", UserData)

\* --------------------------------------------------------------------
\* C7: in one call on a raw-requiring backend with the registry disk
\* present and a non-raw inspected format, the convert tool is invoked
\* exactly once (the call reached conversion: the rename before it did not
\* fail), whether or not the slot link was correct; it is never invoked
\* twice in a call.
C7_ConvertOnce ==
    /\ Count(1, "convert") <= 1
    /\ (/\ Finished(1)
        /\ vmType = RawVMType
        /\ pre[1].regDisk /\ lsOut[1] = "ok"
        /\ info[1] \notin {"-", "raw"}
        /\ failedAt[1] # "rename")
       => Count(1, "convert") = 1

\* Reached: a successful call that converted once although the slot link
\* was broken as well.
C7_Witness ==
    /\ Succeeded(1)
    /\ info[1] = "qcow2"
    /\ pre[1].slot # Link("pers")
    /\ Count(1, "convert") = 1
    /\ Count(1, "attach") = 1

\* --------------------------------------------------------------------
\* C8: a call whose earlier steps did not fail invokes unlock exactly once
\* if the lock marker is present when it gets there and not at all if it
\* is absent, in the create branch and in the existing-disk branch alike;
\* a call whose unlock failed does not return success.
C8_LockClearance ==
    /\ ~Finished(1) => Count(1, "unlock") = 0
    /\ (Finished(1) /\ failedAt[1] \in {"-", "unlock"})
       => Count(1, "unlock") = (IF lockSeen[1] THEN 1 ELSE 0)
    /\ (Finished(1) /\ failedAt[1] \notin {"-", "unlock"}) => Count(1, "unlock") = 0
    /\ (Finished(1) /\ lockSeen[1] /\ lock) => result[1] = "err"

\* Reached: the create branch found the marker and unlocked once.
C8_Witness ==
    /\ Succeeded(1)
    /\ "create" \in OpsOf(1)
    /\ lockSeen[1]
    /\ Count(1, "unlock") = 1
    /\ ~lock

\* --------------------------------------------------------------------
\* C9: when `disk ls` fails, answers something undecodable or answers a
\* record of another name, the call does not end with an error for the
\* query: it goes on to registry create and, once create succeeded, link
\* repair, and it never inspects, renames or converts.
LsUnusable == {"fail", "undecodable", "mismatch"}

C9_FailOpen ==
    lsOut[1] \in LsUnusable =>
        /\ pc[1] = "create" \/ (Len(ops[1]) >= 2 /\ ops[1][2][1] = "create")
        /\ OpsOf(1) \cap {"inspect", "rename", "convert", "readlink"} = {}
        /\ Len(ops[1]) >= 3 => ops[1][3][1] = "attach"
        /\ (Finished(1) /\ failedAt[1] # "create") => "attach" \in OpsOf(1)

\* Reached: the registry held the disk, the query's answer was undecodable,
\* and the call created and repaired.
C9_Witness ==
    /\ lsOut[1] = "undecodable"
    /\ pre[1].regDisk
    /\ Succeeded(1)
    /\ "create" \in OpsOf(1)
    /\ "attach" \in OpsOf(1)

\* --------------------------------------------------------------------
\* C10 as stated: for every inspected format F other than raw the
\* persistent file is renamed to the sibling tagged with F's extension and
\* the convert tool is told that the source has format F.
C10_TaggedByInspectedFormat ==
    \A i \in DOMAIN ops[1] :
        ops[1][i][1] \in {"rename", "convert"} => ops[1][i][2] = info[1]

\* C10, amended: for every inspected format F other than raw the
\* persistent file is renamed to the ".qcow2" sibling, the convert tool is
\* invoked with that sibling as its source, declared qcow2, and the
\* persistent path as its destination, and link repair runs next, in the
\* order rename, convert, link repair.
C10_RenameConvertRepair ==
    info[1] \notin {"-", "raw"} =>
        /\ \A i \in DOMAIN ops[1] :
              /\ ops[1][i][1] = "rename" => (i = 3 /\ ops[1][i][2] = "qcow2")
              /\ ops[1][i][1] = "convert" => (i = 4 /\ ops[1][i][2] = "qcow2")
        /\ Len(ops[1]) >= 3 => ops[1][3][1] = "rename"
        /\ Len(ops[1]) >= 4 => ops[1][4][1] = "convert"
        /\ Len(ops[1]) >= 5 => ops[1][5][1] = "attach"
        /\ pc[1] = "cvt_convert" => (pers = None /\ sib["qcow2"] = pre[1].pers)
        /\ (pc[1] = "att_statpers" /\ LastOp(1) = "convert")
           => pers = File("raw", Follow(sib["qcow2"]).data)
        /\ Succeeded(1) => Len(ops[1]) >= 5

\* Reached: a vmdk persistent file was renamed to the .qcow2 sibling and
\* the convert tool was invoked on it.
C10_Witness ==
    /\ info[1] = "vmdk"
    /\ sib["qcow2"] = File("vmdk", UserData)
    /\ LastOp(1) = "convert"

\* --------------------------------------------------------------------
\* C11: when a step other than the existence query fails (inspect, rename,
\* convert, create, the slot's stat, mkdir, move, remove, symlink,
\* read-link, unlock), the call returns an error, the failing step is the
\* last operation it invoked (no retry, nothing after it), and a call that
\* returns success has seen every step it invoked take effect.
FailingSteps ==
    {"inspect", "rename", "convert", "create", "stat", "mkdir", "move",
     "remove", "symlink", "readlink", "unlock"}

OpNames(p) == [i \in DOMAIN ops[p] |-> ops[p][i][1]]
\* The call of manager p ran with every tool and filesystem step working.
Healthy(p) == ~faulty[p]

\* --------------------------------------------------------------------
\* C12: a call on a fresh install (no registry disk, no persistent file, no
\* parent directory, no lock marker, backend "vz") with every step working
\* returns success after exactly one registry create, one move and one
\* symlink creation, in that order, with no unlock, inspect or convert.
FreshInstall(s) ==
    /\ ~s.regDisk
    /\ s.pers = None
    /\ ~s.disksDir
    /\ ~s.lock

C12_FreshInstallTrace ==
    (Finished(1) /\ Healthy(1) /\ FreshInstall(pre[1]) /\ vmType = "vz") =>
        /\ result[1] = "ok"
        /\ OpNames(1) = <<"ls", "create", "attach", "mkdir", "move", "symlink">>
        /\ Count(1, "create") = 1 /\ Count(1, "move") = 1 /\ Count(1, "symlink") = 1
        /\ OpsOf(1) \cap {"unlock", "inspect", "convert"} = {}
        /\ regDisk
        /\ pers.kind = "file"
        /\ slot = Link("pers")

\* Reached: the fresh-install call has returned success.
C12_Witness ==
    /\ Succeeded(1) /\ Healthy(1) /\ FreshInstall(pre[1]) /\ vmType = "vz"
    /\ Len(ops[1]) = 6
    /\ slot = Link("pers")

\* --------------------------------------------------------------------
\* C13: with the registry disk present, backend "vz", a qcow2 persistent file,
\* the slot a symlink to the persistent path and a lock marker present, a
\* call with every step working returns success after exactly one rename,
\* one convert, one removal and one re-creation of the slot symlink and
\* exactly one unlock, the unlock being last.
ConversionStart(s) ==
    /\ s.regDisk
    /\ s.pers.kind = "file" /\ s.pers.fmt = "qcow2"
    /\ s.slot = Link("pers")
    /\ s.lock

C13_ConversionTrace ==
    (Finished(1) /\ Healthy(1) /\ ConversionStart(pre[1]) /\ vmType = "vz") =>
        /\ result[1] = "ok"
        /\ Count(1, "rename") = 1 /\ Count(1, "convert") = 1
        /\ Count(1, "remove") = 1 /\ Count(1, "symlink") = 1
        /\ Count(1, "unlock") = 1
        /\ LastOp(1) = "unlock"
        /\ OpNames(1) = <<"ls", "inspect", "rename", "convert", "attach",
                          "remove", "symlink", "readlink", "unlock">>

\* Reached: the conversion call has returned success, the file raw, the
\* slot linked again, the lock marker gone.
C13_Witness ==
    /\ Succeeded(1) /\ Healthy(1) /\ ConversionStart(pre[1]) /\ vmType = "vz"
    /\ pers = File("raw", UserData)
    /\ slot = Link("pers")
    /\ ~lock
    /\ LastOp(1) = "unlock"

\* --------------------------------------------------------------------
\* C15: in every link repair, when the symlink-creation step is about to
\* run the slot holds no directory entry of any kind (no regular file, no
\* symlink, dangling or not), and a link repair that returned success has
\* left the slot a symlink to the persistent path.
C15_SlotClearedBeforeSymlink ==
    /\ pc[1] = "att_symlink" => slot.kind = "none"
    /\ AttachReturned(1) => slot = Link("pers")

\* --------------------------------------------------------------------
\* C16: in the existing-disk branch, when the call did no conversion, link
\* repair runs if and only if the slot's link target differs from the
\* persistent path; a regular file or a missing slot reads as the empty
\* target, which differs and is no error; when the target is the persistent
\* path, slot and persistent file are left as they were.
VerifiedWithoutConversion(p) ==
    /\ "readlink" \in OpsOf(p)
    /\ "convert" \notin OpsOf(p)
    /\ failedAt[p] # "readlink"
    /\ pc[p] # "readlink"

\* Link repair was entered in the current call.
RepairStarted(p) == pc[p] = "att_statpers" \/ "attach" \in OpsOf(p)

C16_RepairIffTargetDiffers ==
    /\ VerifiedWithoutConversion(1) =>
          /\ RepairStarted(1) <=> pre[1].slot # Link("pers")
          /\ pre[1].slot = Link("pers") =>
                 /\ slot = pre[1].slot
                 /\ pers = pre[1].pers
                 /\ OpsOf(1) \cap {"mkdir", "move", "remove", "symlink"} = {}
    /\ (Healthy(1) /\ "readlink" \in OpsOf(1) /\ pre[1].slot.kind # "link") =>
          result[1] # "err" \/ failedAt[1] # "readlink"

\* Reached: the slot held a regular file, verification read the empty
\* target, the repair ran and the call succeeded with the slot linked.
C16_Witness ==
    /\ Succeeded(1)
    /\ VerifiedWithoutConversion(1)
    /\ pre[1].slot.kind = "file"
    /\ pre[1].pers.kind = "file"
    /\ "attach" \in OpsOf(1)
    /\ slot = Link("pers")

\* --------------------------------------------------------------------
\* C17: with a backend other than "vz" the call never invokes inspect or
\* convert and never renames the persistent file; with "vz" and an inspected
\* format of raw the call invokes neither the rename nor the convert.
C17_ConversionGated ==
    /\ vmType # "vz" =>
          /\ OpsOf(1) \cap {"inspect", "rename", "convert"} = {}
          /\ info[1] = "-"
          /\ calls[1] >= 1 => sib = pre[1].sib
    /\ (vmType = "vz" /\ info[1] = "raw") =>
          /\ OpsOf(1) \cap {"rename", "convert"} = {}
          /\ sib = pre[1].sib

\* Reached: on "qemu" a call has succeeded over a qcow2 persistent file
\* that is still qcow2 at its path.
C17_Witness ==
    /\ vmType = "qemu"
    /\ Succeeded(1)
    /\ pre[1].regDisk
    /\ pre[1].pers = File("qcow2", UserData)
    /\ pers = File("qcow2", UserData)
    /\ "readlink" \in OpsOf(1)

\* --------------------------------------------------------------------
\* C18: link repair runs at most once per call: after a conversion whose
\* link repair succeeded, link verification finds the slot's target equal
\* to the persistent path and does not repair again; in the create branch
\* link repair runs exactly once.
C18_RepairAtMostOnce ==
    /\ Count(1, "attach") <= 1
    /\ (Succeeded(1) /\ "create" \in OpsOf(1)) => Count(1, "attach") = 1

\* --------------------------------------------------------------------
\* C19: with the registry disk present and backend "vz", when the inspect
\* step fails (tool error, output not decodable, persistent file missing)
\* the call returns an error with registry disk, persistent path, sibling,
\* slot and lock marker as they were at the start of the call, and neither
\* link repair nor lock clearance was attempted.
InspectFailed(p) == "inspect" \in OpsOf(p) /\ info[p] = "-"

C19_InspectFailureLeavesAll ==
    InspectFailed(1) =>
        /\ Finished(1)
        /\ result[1] = "err"
        /\ failedAt[1] = "inspect"
        /\ Snapshot = pre[1]
        /\ OpNames(1) = <<"ls", "inspect">>
        /\ lockSeen[1] = FALSE

\* Reached: inspect failed on a missing persistent file with every tool
\* working; the call ended in error with the lock marker still present.
C19_Witness ==
    /\ InspectFailed(1)
    /\ Healthy(1)
    /\ Finished(1)
    /\ result[1] = "err"
    /\ pre[1].pers = None
    /\ pre[1].regDisk
    /\ vmType = "vz"
    /\ lock

\* ====================================================================
\* Properties of two unserialised managers (SpecConcurrent).
\* ====================================================================
\* The data the persistent file first held is at the persistent path or at
\* a sibling.
FirstDataKept ==
    \/ firstData = NoData
    \/ pers.kind = "file" /\ pers.data = firstData
    \/ \E e \in Exts : sib[e].kind = "file" /\ sib[e].data = firstData

\* --------------------------------------------------------------------
\* C14: the reconciler takes no lock and never creates the lock marker; two
\* interleaved runs can reach a state where the second run's move replaces
\* the already-moved persistent file with the slot symlink, leaving the
\* persistent path not a regular file; with one run at a time, from a start
\* with the registry disk present and the slot a regular file, the
\* persistent path never holds a symlink and the persistent file's first
\* data is never lost.
C14_ClobberOnlyWhenInterleaved ==
    /\ ~overlapped => pers.kind # "link" /\ FirstDataKept
    /\ \A p \in Procs : (calls[p] >= 1 /\ lock) => pre[p].lock

\* Reached: both runs started with the slot a regular file and the
\* persistent file absent, both moved, and the persistent path now holds
\* the slot symlink (pointing at itself) instead of a regular file.
C14_Witness ==
    /\ overlapped
    /\ pre[1].pers = None /\ pre[2].pers = None
    /\ pre[1].slot.kind = "file" /\ pre[2].slot.kind = "file"
    /\ "move" \in OpsOf(1) /\ "move" \in OpsOf(2)
    /\ pers = Link("pers")
    /\ ~FirstDataKept

====
